---- MODULE Spec2Model ----
(***************************************************************************)
(* attempt-ts: createAttempt(deps) and its four operations try, retry, ok  *)
(* and error (src/src/attempt.ts), the default normalizer                  *)
(* (src/src/index.ts) and the p-retry collaborator that retry delegates to.*)
(*                                                                         *)
(* JavaScript values are records tagged by the field t.  A JavaScript      *)
(* object whose key-set matters (options, deps, failure payloads, results) *)
(* is a TLA+ record holding exactly the keys that are present, so that     *)
(* `k in obj`, destructuring defaults and object spread are what they are  *)
(* in the code.                                                            *)
(***************************************************************************)
EXTENDS Integers, Sequences, FiniteSets, TLC

VARIABLES deps, calls

vars == <<deps, calls>>

(***************************************************************************)
(* Bounds of the model                                                     *)
(***************************************************************************)
\* largest explicit `tries` a caller passes
MaxTries == 2
\* largest `retries` a caller puts into the `retry` configuration bag
MaxBagRetries == 2

\* the calls of one behaviour
CallIds == {1}

(***************************************************************************)
(* JavaScript values                                                       *)
(***************************************************************************)
Undefined == [t |-> "undefined"]
Null == [t |-> "null"]
None == [t |-> "none"]
Num(s) == [t |-> "number", v |-> s]
Str(s) == [t |-> "string", v |-> s]
\* new <name>(message), constructed at `site`
NewError(name, message, site) ==
    [t |-> "Error", name |-> name, message |-> message, stack |-> site]
\* a native Promise, already decided to resolve or reject with v
PromiseOf(settle, v) == [t |-> "Promise", settle |-> settle, v |-> v]
\* an object with a then method that is no instance of Promise
ThenableOf(settle, v) == [t |-> "thenable", settle |-> settle, v |-> v]

\* error instanceof Error
IsError(v) == v.t = "Error"
\* result instanceof Promise
IsPromise(v) == v.t = "Promise"
\* what `await` unwraps: a Promise or any object with a then method
IsAwaitable(v) == v.t \in {"Promise", "thenable"}

\* String(value)
StringOf(v) ==
    CASE v.t = "string" -> v.v
      [] v.t = "number" -> v.v
      [] v.t = "undefined" -> "undefined"
      [] v.t = "null" -> "null"
      [] v.t = "Error" -> v.name \o ": " \o v.message
      [] OTHER -> "[object Object]"

ErrBoom == NewError("Error", "boom", "operation")
ErrType == NewError("TypeError", "x is not a function", "operation")
StrPlain == Str("plain string")
Num42 == Num("42")

\* the values an operation returns without a deferred result
PlainValues == {Num42, Null, Undefined}
\* the values an operation throws or rejects with
ThrownValues == {ErrBoom, ErrType, StrPlain}

(***************************************************************************)
(* Objects as records of their present keys                                *)
(***************************************************************************)
Empty == [k \in {} |-> TRUE]
Put(o, k, v) == [x \in DOMAIN o \cup {k} |-> IF x = k THEN v ELSE o[x]]
With(S, k, V) == S \cup {Put(o, k, v) : o \in S, v \in V}
\* const { k = default } = o
Get(o, k, default) == IF k \in DOMAIN o THEN o[k] ELSE default
\* { ...a, ...b }
Spread(a, b) ==
    [k \in DOMAIN a \cup DOMAIN b |-> IF k \in DOMAIN b THEN b[k] ELSE a[k]]
\* const { k1, k2, ...rest } = o
Rest(o, ks) == [k \in DOMAIN o \ ks |-> o[k]]

(***************************************************************************)
(* The injected dependencies (AttemptDependencies) and the options         *)
(***************************************************************************)
\* the fault an injected function raises when it is one that raises
ErrDep == NewError("Error", "dependency failed", "dependency")

\* deps.raises names the injected function (or the normalized error's
\* toClient) that raises when called; absent when none does
FaultFreeDeps ==
    With(With({[normalizeError |-> n] : n \in {"default", "custom"}},
              "logger", {"function", "object"}),
         "reporter", {"function"})
FaultyDeps ==
    {[normalizeError |-> "default", logger |-> "function",
      reporter |-> "function", raises |-> f] :
        f \in {"normalizeError", "logger", "reporter", "toClient"}}
DepsSets == FaultFreeDeps \cup FaultyDeps

Raises(d, f) == "raises" \in DOMAIN d /\ d.raises = f

\* TryOptions: report?, client?, errors?
TryOptionSets ==
    With(With(With({Empty}, "report", BOOLEAN), "client", BOOLEAN),
         "errors", {"classify"})

\* the `retry` configuration bag (PRetryOptions): retries?, shouldRetry?, signal?
RetryBags ==
    {Empty, [shouldRetry |-> "never"], [signal |-> "signal"]}
        \cup {[retries |-> r] : r \in 0..MaxBagRetries}

\* TryWithRetryOptions: TryOptions plus tries? and retry?
RetryOptionSets ==
    With(With(TryOptionSets, "tries", 0..MaxTries), "retry", RetryBags)

(***************************************************************************)
(* Error normalizers                                                       *)
(***************************************************************************)
\* error instanceof Error ? error.message : String(error)
MessageOf(error) == IF IsError(error) THEN error.message ELSE StringOf(error)

\* the `errors` classifier a caller passes, as the tests write it
Classify(error) ==
    IF IsError(error) /\ error.message = "boom" THEN "VALIDATION_ERROR"
    ELSE "DEFAULT"

\* defaultNormalizer(error): message, code, userMessage and toClient
DefaultNormalizer(error) ==
    [message |-> MessageOf(error), code |-> "UNKNOWN_ERROR",
     userMessage |-> "An error occurred", toClient |-> "function"]

\* a caller's normalizer that keeps internal detail and uses options.when
CustomNormalizer(error, ctx) ==
    [message |-> MessageOf(error),
     code |-> IF "when" \in DOMAIN ctx THEN Classify(error) ELSE "DEFAULT",
     userMessage |-> "An error occurred",
     stack |-> IF IsError(error) THEN error.stack ELSE "none",
     cause |-> error,
     toClient |-> "function"]

\* deps.normalizeError(error, ctx)
NormalizeError(d, error, ctx) ==
    IF d.normalizeError = "default" THEN DefaultNormalizer(error)
    ELSE CustomNormalizer(error, ctx)

\* a projection that hands out the normalized error itself
ToClientWhole(normalized) == normalized

\* normalized.toClient(): message, code and userMessage, nothing else
ToClient(normalized) ==
    [message |-> normalized.message, code |-> normalized.code,
     userMessage |-> normalized.userMessage]

(***************************************************************************)
(* Attempt.ok, Attempt.error, Attempt.handleError                          *)
(***************************************************************************)
\* a constructor that turns an undefined result into null
AttemptOkCoalesce(data) ==
    [ok |-> TRUE, error |-> Undefined,
     data |-> IF data = Undefined THEN Null ELSE data]

AttemptOk(data) == [ok |-> TRUE, error |-> Undefined, data |-> data]

\* a constructor that drops the keys it does not know from the payload
AttemptErrorStrict(errorInfo) ==
    [ok |-> FALSE, error |-> Rest(errorInfo, {"client"}), data |-> Undefined]

AttemptError(errorInfo) == [ok |-> FALSE, error |-> errorInfo, data |-> Undefined]

\* reporting only when it is asked for
ShouldReportDefaultFalse(options) == Get(options, "report", FALSE)

\* const { report: shouldReport = true } = options
ShouldReport(options) == Get(options, "report", TRUE)

\* client mode unless it is switched off
ClientModeDefaultTrue(options) == Get(options, "client", TRUE)

\* const { client = false } = options
ClientMode(options) == Get(options, "client", FALSE)

\* a handler that does not pass the classifier on
NormalizerContextDropped(options) == Undefined

\* errors ? { when: errors } : undefined
NormalizerContext(options) ==
    IF "errors" \in DOMAIN options THEN [when |-> options.errors] ELSE Undefined

\* a coercion that wraps every caught value, errors too
OriginalErrorAlwaysWrap(error) ==
    NewError("Error", StringOf(error), "handleError")

\* error instanceof Error ? error : new Error(String(error))
OriginalError(error) ==
    IF IsError(error) THEN error
    ELSE NewError("Error", StringOf(error), "handleError")

\* a client payload that also carries the normalized error
ClientErrorInfoLeaky(normalized) ==
    [client |-> ToClient(normalized), normalized |-> normalized]

\* a client payload that merges the projection into the normalized error's
\* own data
ClientErrorInfoWithDetail(normalized) ==
    [client |-> Spread(Rest(normalized, {"toClient"}), ToClient(normalized))]

\* const clientErrorInfo = { client: normalized.toClient() }
ClientErrorInfo(normalized) == [client |-> ToClient(normalized)]

\* const errorInfo = { error: originalError, normalized }
ErrorInfo(error, normalized) ==
    [error |-> OriginalError(error), normalized |-> normalized]

NormalizeCall(error, ctx) == [fn |-> "normalizeError", error |-> error, ctx |-> ctx]
LoggerCall(form, error) == [fn |-> "logger", form |-> form, error |-> error]
ReporterCall(error) == [fn |-> "reporter", error |-> error]
ToClientCall == [fn |-> "toClient"]

\* the reporting block with the reporter called before the logger
ReportCallsReporterFirst(d, error) ==
    (IF "reporter" \in DOMAIN d THEN <<ReporterCall(error)>> ELSE <<>>)
        \o (IF "logger" \in DOMAIN d
            THEN <<LoggerCall(IF d.logger = "function" THEN "function"
                              ELSE "object.error", error)>>
            ELSE <<>>)

\* a reporting block that is handed the coerced error
ReportCallsCoerced(d, error) ==
    LET logger == IF "logger" \in DOMAIN d
                  THEN <<LoggerCall(IF d.logger = "function" THEN "function"
                                    ELSE "object.error", OriginalError(error))>>
                  ELSE <<>>
        reporter == IF "reporter" \in DOMAIN d
                    THEN <<ReporterCall(OriginalError(error))>>
                    ELSE <<>>
    IN IF logger # <<>> /\ Raises(d, "logger") THEN logger
       ELSE logger \o reporter

\* the calls of the reporting block, in the order the code makes them, cut
\* after the first one that raises
ReportCalls(d, error) ==
    LET logger == IF "logger" \in DOMAIN d
                  THEN <<LoggerCall(IF d.logger = "function" THEN "function"
                                    ELSE "object.error", error)>>
                  ELSE <<>>
        reporter == IF "reporter" \in DOMAIN d THEN <<ReporterCall(error)>>
                    ELSE <<>>
    IN IF logger # <<>> /\ Raises(d, "logger") THEN logger
       ELSE logger \o reporter

ReportRaises(d) ==
    \/ "logger" \in DOMAIN d /\ Raises(d, "logger")
    \/ "reporter" \in DOMAIN d /\ Raises(d, "reporter")

Returned(events, outcome) ==
    [raised |-> FALSE, events |-> events, outcome |-> outcome, fault |-> None]
Raised(events) ==
    [raised |-> TRUE, events |-> events, outcome |-> None, fault |-> ErrDep]

\* a failure handling that contains the faults of the injected functions
HandleErrorContained(d, error, options) ==
    LET quiet == Rest(d, {"raises"})
        ctx == NormalizerContext(options)
        normalized == NormalizeError(quiet, error, ctx)
        e1 == <<NormalizeCall(error, ctx)>>
        e2 == IF ShouldReport(options) THEN e1 \o ReportCalls(quiet, error)
              ELSE e1
    IN IF ClientMode(options)
       THEN Returned(e2 \o <<ToClientCall>>,
                     AttemptError(ClientErrorInfo(normalized)))
       ELSE Returned(e2, AttemptError(ErrorInfo(error, normalized)))

\* Attempt.handleError(error, options): the calls it makes and what it
\* returns, or the fault it lets through
HandleError(d, error, options) ==
    LET ctx == NormalizerContext(options)
        normalized == NormalizeError(d, error, ctx)
        e1 == <<NormalizeCall(error, ctx)>>
        e2 == IF ShouldReport(options) THEN e1 \o ReportCalls(d, error) ELSE e1
    IN IF Raises(d, "normalizeError") THEN Raised(e1)
       ELSE IF ShouldReport(options) /\ ReportRaises(d) THEN Raised(e2)
       ELSE IF ClientMode(options)
            THEN IF Raises(d, "toClient") THEN Raised(e2 \o <<ToClientCall>>)
                 ELSE Returned(e2 \o <<ToClientCall>>,
                               AttemptError(ClientErrorInfo(normalized)))
       ELSE Returned(e2, AttemptError(ErrorInfo(error, normalized)))

(***************************************************************************)
(* What one invocation of the wrapped operation does                       *)
(***************************************************************************)
Return(v) == [k |-> "return", v |-> v]
Throw(v) == [k |-> "throw", v |-> v]

\* the operations handed to try
TryOpResults ==
    {Return(v) : v \in PlainValues}
        \cup {Throw(e) : e \in ThrownValues}
        \cup {Return(PromiseOf("resolve", v)) : v \in {Num42, Undefined}}
        \cup {Return(PromiseOf("reject", e)) : e \in {ErrBoom, StrPlain}}
        \cup {Return(ThenableOf("resolve", Num42)),
              Return(ThenableOf("reject", ErrBoom))}

\* the operations handed to retry, one result per invocation
RetryOpResults ==
    {Return(Num42), Return(PromiseOf("resolve", Null)),
     Return(PromiseOf("reject", ErrBoom)),
     Throw(ErrBoom), Throw(StrPlain), Throw(ErrType)}

\* whether invocation result r is a failure of the operation: a throw, or a
\* deferred result that rejects
Fails(r) == r.k = "throw" \/ (IsAwaitable(r.v) /\ r.v.settle = "reject")

(***************************************************************************)
(* One call of try or retry                                                *)
(*   shape: what the caller got when the call returned ("plain": an        *)
(*          Outcome, "deferred": a handle, "thrown": an exception)         *)
(*   pc:    "pending" (try awaits the operation's promise), "inflight"     *)
(*          (p-retry awaits an attempt), "backoff" (p-retry waits before   *)
(*          the next attempt), "done" (the Outcome or the fault is there)  *)
(***************************************************************************)
IdleCall ==
    [api |-> "none", pc |-> "idle", shape |-> "none", opts |-> Empty,
     cur |-> None, invocations |-> 0, failed |-> 0, aborted |-> FALSE,
     outcome |-> None, fault |-> None, events |-> <<>>]

\* the call ends with what handleError(error, options) gave
Handled(d, c, error, options) ==
    LET h == HandleError(d, error, options)
    IN [c EXCEPT !.pc = "done", !.outcome = h.outcome, !.fault = h.fault,
                 !.events = h.events]

\* result instanceof Promise
ReturnsDeferred(result) == IsPromise(result)

\* a try that calls the operation a second time to chain on its promise
AttemptTryInvokesTwice(d, c, options, r) ==
    LET invoked == [c EXCEPT !.api = "try", !.opts = options, !.cur = r,
                             !.invocations = 1,
                             !.failed = IF Fails(r) THEN 1 ELSE 0]
    IN IF r.k = "throw"
       THEN LET h == Handled(d, invoked, r.v, options)
            IN [h EXCEPT !.shape = IF h.fault = None THEN "plain" ELSE "thrown"]
       ELSE IF ReturnsDeferred(r.v)
            THEN [invoked EXCEPT !.pc = "pending", !.shape = "deferred",
                                 !.invocations = 2]
       ELSE [invoked EXCEPT !.pc = "done", !.shape = "plain",
                            !.outcome = AttemptOk(r.v)]

\* Attempt.try(fn, options) up to its return
AttemptTry(d, c, options, r) ==
    LET invoked == [c EXCEPT !.api = "try", !.opts = options, !.cur = r,
                             !.invocations = 1,
                             !.failed = IF Fails(r) THEN 1 ELSE 0]
    IN IF r.k = "throw"
       THEN LET h == Handled(d, invoked, r.v, options)
            IN [h EXCEPT !.shape = IF h.fault = None THEN "plain" ELSE "thrown"]
       ELSE IF ReturnsDeferred(r.v)
            THEN [invoked EXCEPT !.pc = "pending", !.shape = "deferred"]
       ELSE [invoked EXCEPT !.pc = "done", !.shape = "plain",
                            !.outcome = AttemptOk(r.v)]

\* a try that keeps the operation's promise in a variable of the module,
\* which a later try call overwrites: the chain settles with the promise of
\* the latest try call
AttemptTrySettledSharedResult(d, c) ==
    LET tries == {j \in DOMAIN calls : calls[j].api = "try"}
        latest == CHOOSE j \in tries : \A k \in tries : k <= j
        result == calls[latest].cur.v
    IN IF result.settle = "resolve"
       THEN [c EXCEPT !.pc = "done", !.outcome = AttemptOk(result.v)]
       ELSE Handled(d, c, result.v, c.opts)

\* a chain that passes every settled result, resolved ones too, to the
\* logger and the reporter
AttemptTrySettledReportsAll(d, c) ==
    IF c.cur.v.settle = "resolve"
    THEN [c EXCEPT !.pc = "done", !.outcome = AttemptOk(c.cur.v.v),
                   !.events = ReportCalls(d, c.cur.v.v)]
    ELSE Handled(d, c, c.cur.v.v, c.opts)

\* the .then / .catch chained on the operation's promise
AttemptTrySettled(d, c) ==
    IF c.cur.v.settle = "resolve"
    THEN [c EXCEPT !.pc = "done", !.outcome = AttemptOk(c.cur.v.v)]
    ELSE Handled(d, c, c.cur.v.v, c.opts)

(***************************************************************************)
(* Attempt.retry and p-retry                                               *)
(***************************************************************************)
DefaultTries == 3

\* tries taken as the number of attempts, not of retries
RetriesAsAttempts(options) == Get(options, "tries", DefaultTries) - 1

\* const { tries: retries = 3 } = options
Retries(options) == Get(options, "tries", DefaultTries)

\* const { tries, retry, ...tryOptions } = options
\* a rest that takes client out of the options as well
TryOptionsOfNoClient(options) == Rest(options, {"tries", "retry", "client"})

TryOptionsOf(options) == Rest(options, {"tries", "retry"})

\* { retries, ...retryOptions }
PRetryOptions(options) ==
    Spread([retries |-> Retries(options)], Get(options, "retry", Empty))

\* `await input(attemptNumber)` inside p-retry
Await(r) ==
    IF r.k = "throw" THEN [fulfilled |-> FALSE, v |-> r.v]
    ELSE IF IsAwaitable(r.v)
         THEN [fulfilled |-> r.v.settle = "resolve", v |-> r.v.v]
    ELSE [fulfilled |-> TRUE, v |-> r.v]

\* p-retry turns a thrown non-error into a TypeError
PRetryError(e) ==
    IF IsError(e) THEN e
    ELSE NewError("TypeError", "Non-error was thrown: " \o StringOf(e), "p-retry")

\* p-retry rejects instead of scheduling another attempt: a TypeError (so a
\* non-error too) is never retried, the retries are spent, or shouldRetry
\* says no
PRetryGivesUp(po, e, consumed) ==
    \/ PRetryError(e).name = "TypeError"
    \/ consumed >= po.retries
    \/ ("shouldRetry" \in DOMAIN po /\ po.shouldRetry = "never")

\* signal.reason of an aborted AbortSignal
AbortReason == NewError("AbortError", "This operation was aborted", "signal")

\* a retry that, like try, answers a synchronous operation synchronously
AttemptRetryLikeTry(c, options, r) ==
    [c EXCEPT !.api = "retry", !.opts = options, !.cur = r, !.invocations = 1,
              !.pc = "inflight",
              !.shape = IF r.k = "return" /\ IsPromise(r.v)
                        THEN "deferred" ELSE "plain"]

\* Attempt.retry(fn, options) up to its return: p-retry makes the first
\* attempt before it first suspends
AttemptRetry(c, options, r) ==
    [c EXCEPT !.api = "retry", !.opts = options, !.cur = r, !.invocations = 1,
              !.pc = "inflight", !.shape = "deferred"]

\* a retry that hands every failed attempt to the failure handling
AttemptRetrySettledHandlesEach(d, c) ==
    LET a == Await(c.cur)
        po == PRetryOptions(c.opts)
        failedNow == [c EXCEPT !.failed = @ + 1]
        h == HandleError(d, PRetryError(a.v), TryOptionsOf(c.opts))
    IN IF a.fulfilled
       THEN [c EXCEPT !.pc = "done", !.outcome = AttemptOk(a.v)]
       ELSE IF PRetryGivesUp(po, a.v, c.failed)
            THEN [failedNow EXCEPT !.pc = "done", !.outcome = h.outcome,
                                   !.fault = h.fault,
                                   !.events = c.events \o h.events]
       ELSE [failedNow EXCEPT !.pc = "backoff",
                              !.events = c.events \o h.events]

\* the attempt p-retry awaits has settled
AttemptRetrySettled(d, c) ==
    LET a == Await(c.cur)
        po == PRetryOptions(c.opts)
        failedNow == [c EXCEPT !.failed = @ + 1]
    IN IF a.fulfilled
       THEN [c EXCEPT !.pc = "done", !.outcome = AttemptOk(a.v)]
       ELSE IF PRetryGivesUp(po, a.v, c.failed)
            THEN Handled(d, failedNow, PRetryError(a.v), TryOptionsOf(c.opts))
       ELSE [failedNow EXCEPT !.pc = "backoff"]

\* a p-retry that starts two attempts at once after the delay
AttemptRetryNextTwice(c, r) ==
    [c EXCEPT !.cur = r, !.invocations = @ + 2, !.pc = "inflight"]

\* the backoff delay is over: p-retry invokes the operation again
AttemptRetryNext(c, r) ==
    [c EXCEPT !.cur = r, !.invocations = @ + 1, !.pc = "inflight"]

\* a retry without its catch: the rejection of p-retry reaches the caller
AttemptRetryAbortedUnhandled(d, c) ==
    [c EXCEPT !.aborted = TRUE, !.pc = "done", !.fault = AbortReason]

\* the signal passed in the retry bag aborts: p-retry rejects with its reason
AttemptRetryAborted(d, c) ==
    Handled(d, [c EXCEPT !.aborted = TRUE], AbortReason, TryOptionsOf(c.opts))

(***************************************************************************)
(* Attempt.ok and Attempt.error called by hand                             *)
(***************************************************************************)
Arg(v) == [k |-> "arg", v |-> v]

\* the data handed to ok
OkArguments == PlainValues \cup {ErrBoom, StrPlain}

\* the payloads handed to error: ResultErrorData (error, normalized and the
\* optional client) and ClientResultErrorData (client)
ErrorArguments ==
    LET n == DefaultNormalizer(ErrBoom)
    IN {[error |-> ErrBoom, normalized |-> n],
        [client |-> ToClient(n)],
        [error |-> ErrBoom, normalized |-> n, client |-> ToClient(n)]}

\* attempt.ok(data)
ConstructOk(c, data) ==
    [c EXCEPT !.api = "ok", !.cur = Arg(data), !.pc = "done",
              !.shape = "plain", !.outcome = AttemptOk(data)]

\* attempt.error(errorInfo)
ConstructError(c, errorInfo) ==
    [c EXCEPT !.api = "error", !.cur = Arg(errorInfo), !.pc = "done",
              !.shape = "plain", !.outcome = AttemptError(errorInfo)]

(***************************************************************************)
(* The state machine                                                       *)
(***************************************************************************)
Init ==
    /\ deps \in DepsSets
    /\ calls = [i \in CallIds |-> IdleCall]

CallTry(i) ==
    /\ calls[i].pc = "idle"
    /\ \E options \in TryOptionSets, r \in TryOpResults :
          calls' = [calls EXCEPT ![i] = AttemptTry(deps, @, options, r)]
    /\ UNCHANGED deps

TrySettle(i) ==
    /\ calls[i].api = "try"
    /\ calls[i].pc = "pending"
    /\ calls' = [calls EXCEPT ![i] = AttemptTrySettled(deps, @)]
    /\ UNCHANGED deps

CallRetry(i) ==
    /\ calls[i].pc = "idle"
    /\ \E options \in RetryOptionSets, r \in RetryOpResults :
          calls' = [calls EXCEPT ![i] = AttemptRetry(@, options, r)]
    /\ UNCHANGED deps

RetrySettle(i) ==
    /\ calls[i].api = "retry"
    /\ calls[i].pc = "inflight"
    /\ calls' = [calls EXCEPT ![i] = AttemptRetrySettled(deps, @)]
    /\ UNCHANGED deps

RetryNext(i) ==
    /\ calls[i].api = "retry"
    /\ calls[i].pc = "backoff"
    /\ \E r \in RetryOpResults :
          calls' = [calls EXCEPT ![i] = AttemptRetryNext(@, r)]
    /\ UNCHANGED deps

RetryAbort(i) ==
    /\ calls[i].api = "retry"
    /\ calls[i].pc \in {"inflight", "backoff"}
    /\ "signal" \in DOMAIN PRetryOptions(calls[i].opts)
    /\ calls' = [calls EXCEPT ![i] = AttemptRetryAborted(deps, @)]
    /\ UNCHANGED deps

CallOk(i) ==
    /\ calls[i].pc = "idle"
    /\ \E data \in OkArguments :
          calls' = [calls EXCEPT ![i] = ConstructOk(@, data)]
    /\ UNCHANGED deps

CallError(i) ==
    /\ calls[i].pc = "idle"
    /\ \E errorInfo \in ErrorArguments :
          calls' = [calls EXCEPT ![i] = ConstructError(@, errorInfo)]
    /\ UNCHANGED deps

Next ==
    \E i \in CallIds :
        \/ CallOk(i)
        \/ CallError(i)
        \/ CallTry(i)
        \/ TrySettle(i)
        \/ CallRetry(i)
        \/ RetrySettle(i)
        \/ RetryNext(i)
        \/ RetryAbort(i)

Spec == Init /\ [][Next]_vars

(***************************************************************************)
(* Vocabulary of the properties                                            *)
(***************************************************************************)
NoDepRaises == "raises" \notin DOMAIN deps

IsTry(c) == c.api = "try"
IsRetry(c) == c.api = "retry"
Done(c) == c.pc = "done"

\* try caught a value: the operation threw, or its Promise rejected
TryCaught(c) ==
    /\ IsTry(c)
    /\ Done(c)
    /\ \/ c.cur.k = "throw"
       \/ IsPromise(c.cur.v) /\ c.cur.v.settle = "reject"

\* the value try caught
TryCaughtValue(c) == IF c.cur.k = "throw" THEN c.cur.v ELSE c.cur.v.v

\* p-retry rejected: by the abort, or with the last attempt's failure
RetryCaught(c) ==
    /\ IsRetry(c)
    /\ Done(c)
    /\ (c.aborted \/ ~Await(c.cur).fulfilled)

\* the value the handle of p-retry rejected with
RetryCaughtValue(c) ==
    IF c.aborted THEN AbortReason ELSE PRetryError(Await(c.cur).v)

\* the options of the failure-handling procedure of a call
HandlerOptions(c) == IF IsRetry(c) THEN TryOptionsOf(c.opts) ELSE c.opts

IsOutcome(o) == o # None
IsFailure(o) == o # None /\ ~o.ok
IsSuccess(o) == o # None /\ o.ok

(***************************************************************************)
(* C1: try and retry never raise: every operation that throws or whose     *)
(* deferred result rejects ends, for all options, in a failure Outcome     *)
(* (ok = false); try never throws and no handle rejects, provided no       *)
(* injected collaborator raises.                                           *)
(***************************************************************************)
C1_EveryFailureBecomesAnOutcome ==
    \A i \in CallIds :
        LET c == calls[i]
        IN NoDepRaises =>
             /\ c.shape # "thrown"
             /\ c.fault = None
             /\ (IsTry(c) /\ c.shape = "plain" /\ Fails(c.cur))
                    => IsFailure(c.outcome)
             /\ (IsTry(c) /\ Done(c) /\ Fails(c.cur)) => IsFailure(c.outcome)
             /\ RetryCaught(c) => IsFailure(c.outcome)

C3_InternalPayloadKeys ==
    \A i \in CallIds :
        LET c == calls[i]
        IN (NoDepRaises /\ TryCaught(c)
                /\ ("client" \in DOMAIN c.opts => ~c.opts.client))
             => /\ IsFailure(c.outcome)
                /\ DOMAIN c.outcome.error = {"error", "normalized"}
                /\ "client" \notin DOMAIN c.outcome.error

\* client omitted, and a non-error caught
C3_Witness ==
    \E i \in CallIds :
        /\ NoDepRaises
        /\ TryCaught(calls[i])
        /\ "client" \notin DOMAIN calls[i].opts
        /\ ~IsError(TryCaughtValue(calls[i]))
        /\ IsFailure(calls[i].outcome)

(***************************************************************************)
(* C4: shape symmetry of try: an operation that returns a deferred result  *)
(* of any kind gets a deferred handle, an operation that returns a plain   *)
(* value gets a plain Outcome at once.                                     *)
(***************************************************************************)
C4_ShapeSymmetry ==
    \A i \in CallIds :
        LET c == calls[i]
        IN (IsTry(c) /\ c.cur.k = "return")
             => /\ IsAwaitable(c.cur.v) => c.shape = "deferred"
                /\ ~IsAwaitable(c.cur.v)
                     => (c.shape = "plain" /\ Done(c) /\ IsOutcome(c.outcome))

(***************************************************************************)
(* C5: for every synchronous operation that returns without throwing, try  *)
(* returns at once the Outcome {ok: true, error: undefined, data} with     *)
(* data the returned value, null and undefined included.                   *)
(***************************************************************************)
C5_SyncSuccess ==
    \A i \in CallIds :
        LET c == calls[i]
        IN (IsTry(c) /\ c.cur.k = "return" /\ ~IsAwaitable(c.cur.v))
             => /\ Done(c)
                /\ c.shape = "plain"
                /\ c.outcome = [ok |-> TRUE, error |-> Undefined, data |-> c.cur.v]

\* a void operation: undefined returned
C5_Witness ==
    \E i \in CallIds :
        /\ IsTry(calls[i])
        /\ calls[i].cur = Return(Undefined)
        /\ calls[i].shape = "plain"
        /\ IsSuccess(calls[i].outcome)

\* tries as the caller gave it, or its default
Tries(c) == IF "tries" \in DOMAIN c.opts THEN c.opts.tries ELSE DefaultTries

\* the retry configuration bag of a call
Bag(c) == IF "retry" \in DOMAIN c.opts THEN c.opts.retry ELSE Empty

\* the retries count that reaches p-retry
EffectiveRetries(c) ==
    IF "retries" \in DOMAIN Bag(c) THEN Bag(c).retries ELSE Tries(c)

\* every invocation made so far has failed
AllFailed(c) == c.failed = c.invocations

\* a failure p-retry retries while retries are left
Retryable(e) == IsError(e) /\ e.name # "TypeError"

(***************************************************************************)
(* C6: retry with tries = N invokes the operation at most N + 1 times,     *)
(* whatever the retry bag holds; if every invocation fails, the Outcome is *)
(* a failure and the invocation count is exactly N + 1.  The second half   *)
(* is read of the failures p-retry retries: errors that are no TypeError,  *)
(* with no shouldRetry in the bag and no abort.                            *)
(***************************************************************************)
C6_AtMostTriesPlusOne ==
    \A i \in CallIds :
        LET c == calls[i]
        IN IsRetry(c)
             => /\ c.invocations <= Tries(c) + 1
                /\ (NoDepRaises /\ Done(c) /\ AllFailed(c) /\ ~c.aborted
                        /\ Retryable(Await(c.cur).v)
                        /\ "shouldRetry" \notin DOMAIN Bag(c))
                     => (IsFailure(c.outcome) /\ c.invocations = Tries(c) + 1)

(***************************************************************************)
(* C7 as stated: an operation that fails k <= tries times and succeeds     *)
(* on invocation k + 1 ends in the Success of that invocation after        *)
(* exactly k + 1 invocations: a retry call that has seen at most tries     *)
(* failures never ends otherwise.                                          *)
(***************************************************************************)
C7_SuccessWithinTries ==
    \A i \in CallIds :
        LET c == calls[i]
        IN (IsRetry(c) /\ NoDepRaises /\ Done(c) /\ c.failed <= Tries(c))
             => /\ c.outcome = AttemptOk(Await(c.cur).v)
                /\ c.invocations = c.failed + 1

\* C7, the state part: the end of a retry call that p-retry did not stop
C7_RetriedUntilSuccess ==
    \A i \in CallIds :
        LET c == calls[i]
            a == Await(c.cur)
        IN (IsRetry(c) /\ NoDepRaises /\ Done(c) /\ ~c.aborted)
             => /\ a.fulfilled
                  => /\ c.outcome = AttemptOk(a.v)
                     /\ c.invocations = c.failed + 1
                     /\ c.failed <= EffectiveRetries(c)
                /\ (~a.fulfilled /\ Retryable(a.v)
                        /\ "shouldRetry" \notin DOMAIN Bag(c))
                  => /\ IsFailure(c.outcome)
                     /\ AllFailed(c)
                     /\ c.failed = EffectiveRetries(c) + 1

(***************************************************************************)
(* C7 (amended): in retry, if the operation fails on its first k           *)
(* invocations and succeeds on invocation k + 1, and p-retry retries each  *)
(* of the k failures (k is at most the retries count that reaches p-retry, *)
(* each failure is an Error that is no TypeError, shouldRetry does not     *)
(* decline and the signal does not abort), the Outcome is the Success of   *)
(* invocation k + 1 after exactly k + 1 invocations, and a finished call   *)
(* invokes the operation no more.                                          *)
(***************************************************************************)
C7_SuccessAfterRetriedFailures ==
    /\ []C7_RetriedUntilSuccess
    /\ [][\A i \in CallIds : Done(calls[i]) => calls'[i] = calls[i]]_vars

\* two failures, then the success of the third invocation
C7_Witness ==
    \E i \in CallIds :
        /\ IsRetry(calls[i])
        /\ NoDepRaises
        /\ Done(calls[i])
        /\ calls[i].failed = 2
        /\ calls[i].invocations = 3
        /\ calls[i].outcome = AttemptOk(Num42)

(***************************************************************************)
(* C8: retry with tries = 0 invokes the operation exactly once and never   *)
(* retries; the failure of that one invocation is the final failure.       *)
(***************************************************************************)
C8_ZeroTriesOneInvocation ==
    \A i \in CallIds :
        LET c == calls[i]
        IN (IsRetry(c) /\ "tries" \in DOMAIN c.opts /\ c.opts.tries = 0)
             => /\ c.invocations = 1
                /\ c.pc # "backoff"
                /\ (NoDepRaises /\ Done(c) /\ AllFailed(c))
                     => IsFailure(c.outcome)

(***************************************************************************)
(* C9: in the failure handling of every path (sync throw, async rejection, *)
(* retry exhaustion) the normalizer is called first, then the logger, then *)
(* the reporter: never the reporter before the logger, and neither before  *)
(* the normalizer.                                                         *)
(***************************************************************************)
C9_NormalizeLogReportOrder ==
    \A i \in CallIds :
        LET c == calls[i]
            ev == c.events
        IN /\ (TryCaught(c) \/ RetryCaught(c)) => Len(ev) >= 1
           /\ \A j \in 1..Len(ev) : (ev[j].fn = "normalizeError") <=> (j = 1)
           /\ \A j \in 1..Len(ev) : \A k \in 1..Len(ev) :
                 (ev[j].fn = "reporter" /\ ev[k].fn = "logger") => k < j

\* retry exhaustion with a logger and a reporter
C9_Witness ==
    \E i \in CallIds :
        /\ RetryCaught(calls[i])
        /\ ~calls[i].aborted
        /\ calls[i].invocations > 1
        /\ Len(calls[i].events) = 3
        /\ calls[i].events[2].fn = "logger"
        /\ calls[i].events[3].fn = "reporter"

(***************************************************************************)
(* C10: report gates the reporting and nothing else: with report true or   *)
(* omitted a failure calls the logger and the reporter (those injected);   *)
(* with report false neither is called, the normalizer still is, and the   *)
(* Outcome is the one report = true gives.                                 *)
(***************************************************************************)
C10_ReportGatesReporting ==
    \A i \in CallIds :
        LET c == calls[i]
            ev == c.events
            o == HandlerOptions(c)
            v == IF IsTry(c) THEN TryCaughtValue(c) ELSE RetryCaughtValue(c)
            n(f) == Cardinality({j \in 1..Len(ev) : ev[j].fn = f})
        IN (NoDepRaises /\ (TryCaught(c) \/ RetryCaught(c)))
             => /\ n("normalizeError") = 1
                /\ ("report" \in DOMAIN o /\ ~o.report)
                     => /\ n("logger") = 0
                        /\ n("reporter") = 0
                        /\ c.outcome
                             = HandleError(deps, v, Put(o, "report", TRUE)).outcome
                /\ ("report" \in DOMAIN o => o.report)
                     => /\ n("logger") = IF "logger" \in DOMAIN deps THEN 1 ELSE 0
                        /\ n("reporter")
                             = IF "reporter" \in DOMAIN deps THEN 1 ELSE 0

\* report = false with a logger and a reporter injected
C10_Witness ==
    \E i \in CallIds :
        /\ NoDepRaises
        /\ TryCaught(calls[i])
        /\ "report" \in DOMAIN calls[i].opts
        /\ ~calls[i].opts.report
        /\ {"logger", "reporter"} \subseteq DOMAIN deps
        /\ IsFailure(calls[i].outcome)
        /\ Len(calls[i].events) = 1

(***************************************************************************)
(* C11: retry and try yield the same failure Outcome: for the value the    *)
(* handle of p-retry rejected with and the report, client and errors       *)
(* options of the call, the Outcome of retry, and the calls it made to the *)
(* collaborators, are those of a try whose operation throws that value     *)
(* under those options (so the same key sets and the same client safety);  *)
(* tries and retry are not among the options of the failure handling.      *)
(***************************************************************************)
C11_RetryFailsAsTry ==
    \A i \in CallIds :
        LET c == calls[i]
            v == RetryCaughtValue(c)
            o == [k \in DOMAIN c.opts \cap {"report", "client", "errors"}
                     |-> c.opts[k]]
            asTry == AttemptTry(deps, IdleCall, o, Throw(v))
        IN (NoDepRaises /\ RetryCaught(c))
             => /\ c.outcome = asTry.outcome
                /\ c.events = asTry.events
                /\ c.fault = asTry.fault
                /\ DOMAIN c.outcome.error = DOMAIN asTry.outcome.error
                /\ DOMAIN HandlerOptions(c) \cap {"tries", "retry"} = {}

\* a retry in client mode, with tries and a retry bag given, whose attempts
\* all failed
C11_Witness ==
    \E i \in CallIds :
        /\ NoDepRaises
        /\ RetryCaught(calls[i])
        /\ {"tries", "retry", "client"} \subseteq DOMAIN calls[i].opts
        /\ calls[i].opts.client
        /\ calls[i].invocations >= 2
        /\ DOMAIN calls[i].outcome.error = {"client"}

\* C12, the state part: how an aborted retry call has ended
C12_AbortSurfacesAsFailure ==
    \A i \in CallIds :
        LET c == calls[i]
        IN (NoDepRaises /\ IsRetry(c) /\ c.aborted)
             => /\ Done(c)
                /\ c.shape = "deferred"
                /\ c.fault = None
                /\ IsFailure(c.outcome)
                /\ Len(c.events) >= 1
                /\ c.events[1] = NormalizeCall(AbortReason,
                                               NormalizerContext(c.opts))
                /\ c.outcome
                     = HandleError(deps, AbortReason,
                                   [k \in DOMAIN c.opts
                                          \cap {"report", "client", "errors"}
                                       |-> c.opts[k]]).outcome

\* C12, the step part: an aborted call does nothing more
C12_NoAttemptAfterAbort ==
    \A i \in CallIds :
        calls[i].aborted
            => /\ calls'[i].invocations = calls[i].invocations
               /\ calls'[i].outcome = calls[i].outcome

(***************************************************************************)
(* C12: cancellation of retry: once the abort signal given in the retry    *)
(* configuration has been triggered the operation is not invoked again,    *)
(* and the abort ends the call in a failure Outcome made by the failure    *)
(* handling from the abort reason: the handle resolves with ok = false, it *)
(* neither rejects nor stays pending.                                      *)
(***************************************************************************)
C12_Cancellation ==
    /\ []C12_AbortSurfacesAsFailure
    /\ [][C12_NoAttemptAfterAbort]_vars

\* the signal aborts between two attempts, after a failed one
C12_Witness ==
    \E i \in CallIds :
        /\ NoDepRaises
        /\ IsRetry(calls[i])
        /\ calls[i].aborted
        /\ calls[i].failed >= 1
        /\ calls[i].failed = calls[i].invocations
        /\ IsFailure(calls[i].outcome)

\* C13, the state part: at most one invocation of a retry call has not
\* settled
C13_AtMostOneInFlight ==
    \A i \in CallIds :
        LET c == calls[i]
        IN IsRetry(c)
             => /\ c.invocations - c.failed \in {0, 1}
                /\ c.pc = "inflight" => c.invocations = c.failed + 1
                /\ c.pc = "backoff" => c.invocations = c.failed

\* C13, the step part: an invocation starts alone, when every earlier one
\* has settled as a failure
C13_StartsAfterFailure ==
    \A i \in CallIds :
        (IsRetry(calls'[i]) /\ calls'[i].invocations # calls[i].invocations)
            => /\ calls'[i].invocations = calls[i].invocations + 1
               /\ AllFailed(calls[i])
               /\ calls[i].pc \in {"idle", "backoff"}
               /\ calls[i].outcome = None
               /\ calls'[i].pc = "inflight"

(***************************************************************************)
(* C13: within one retry call the attempts are strictly sequential: never  *)
(* are two invocations of the operation in flight, and attempt i + 1       *)
(* starts only after the result of attempt i, a deferred one included, has *)
(* settled as a failure.                                                   *)
(***************************************************************************)
C13_SequentialAttempts ==
    /\ []C13_AtMostOneInFlight
    /\ [][C13_StartsAfterFailure]_vars

\* the second attempt is in flight after the first one failed
C13_Witness ==
    \E i \in CallIds :
        /\ IsRetry(calls[i])
        /\ calls[i].pc = "inflight"
        /\ calls[i].invocations = 2
        /\ calls[i].failed = 1

(***************************************************************************)
(* C14: when the value caught by the failure handling is not error-like    *)
(* (a thrown string), the error field of the InternalFailure payload is a  *)
(* fresh error whose message is the string form of the caught value; a     *)
(* caught error is placed there unchanged; in both cases the normalizer    *)
(* is given the raw caught value, not the coerced one.                     *)
(***************************************************************************)
C14_CoercedErrorRawNormalizer ==
    \A i \in CallIds :
        LET c == calls[i]
            v == IF IsTry(c) THEN TryCaughtValue(c) ELSE RetryCaughtValue(c)
            o == HandlerOptions(c)
        IN (NoDepRaises /\ (TryCaught(c) \/ RetryCaught(c)))
             => /\ Len(c.events) >= 1
                /\ c.events[1].fn = "normalizeError"
                /\ c.events[1].error = v
                /\ ("client" \in DOMAIN o => ~o.client)
                     => /\ IsError(v) => c.outcome.error.error = v
                        /\ ~IsError(v)
                             => /\ IsError(c.outcome.error.error)
                                /\ c.outcome.error.error # v
                                /\ c.outcome.error.error.name = "Error"
                                /\ c.outcome.error.error.message = StringOf(v)
                                /\ c.outcome.error.error.stack # "operation"
                        /\ c.outcome.error.normalized
                             = NormalizeError(deps, v, NormalizerContext(o))

\* try caught the thrown string "plain string": the payload holds a new
\* error with that message, the normalizer saw the string itself
C14_Witness ==
    \E i \in CallIds :
        /\ NoDepRaises
        /\ TryCaught(calls[i])
        /\ TryCaughtValue(calls[i]) = StrPlain
        /\ "client" \notin DOMAIN calls[i].opts
        /\ calls[i].outcome.error.error.message = "plain string"
        /\ calls[i].events[1].error = StrPlain

\* the three shapes of an Outcome
IsSuccessShape(o) ==
    /\ DOMAIN o = {"ok", "error", "data"}
    /\ o.ok
    /\ o.error = Undefined

IsInternalFailureShape(o) ==
    /\ DOMAIN o = {"ok", "error", "data"}
    /\ ~o.ok
    /\ o.data = Undefined
    /\ DOMAIN o.error = {"error", "normalized"}

IsClientFailureShape(o) ==
    /\ DOMAIN o = {"ok", "error", "data"}
    /\ ~o.ok
    /\ o.data = Undefined
    /\ DOMAIN o.error = {"client"}

(***************************************************************************)
(* C15: every Outcome obtained from try, retry, ok or error has exactly    *)
(* one of three shapes: Success (ok true, no failure payload),             *)
(* InternalFailure (ok false, payload keys exactly error and normalized,   *)
(* no data) or ClientFailure (ok false, payload keys exactly client, no    *)
(* data), so that the key set of the payload alone tells the two failures  *)
(* apart.                                                                  *)
(***************************************************************************)
C15_ThreeShapes ==
    \A i \in CallIds :
        LET o == calls[i].outcome
        IN IsOutcome(o)
             => \/ IsSuccessShape(o)
                \/ IsInternalFailureShape(o)
                \/ IsClientFailureShape(o)

(***************************************************************************)
(* JSON.parse(JSON.stringify(value)): a property whose value is undefined  *)
(* or a function is left out; an Error, a Promise or a thenable has no own *)
(* enumerable data property and is written as {}; strings, numbers and     *)
(* null are kept.                                                          *)
(***************************************************************************)
PlainObject == [t |-> "object"]

\* the properties of the normalized and client errors that hold a function,
\* and those that hold a value of any type
FunctionKeys == {"toClient"}
ValueKeys == {"cause"}

JsonValue(v) ==
    IF v.t \in {"Error", "Promise", "thenable"} THEN PlainObject ELSE v

\* a normalized error or a client error read back
JsonObject(o) ==
    LET kept == {k \in DOMAIN o \ FunctionKeys :
                    k \in ValueKeys => o[k] # Undefined}
    IN [k \in kept |-> IF k \in ValueKeys THEN JsonValue(o[k]) ELSE o[k]]

\* a failure payload read back
JsonPayload(p) ==
    [k \in DOMAIN p |-> IF k = "error" THEN JsonValue(p[k]) ELSE JsonObject(p[k])]

\* an Outcome read back
JsonOutcome(o) ==
    LET kept == {"ok"} \cup {k \in {"error", "data"} : o[k] # Undefined}
    IN [k \in kept |-> CASE k = "ok" -> o.ok
                         [] k = "data" -> JsonValue(o.data)
                         [] k = "error" -> JsonPayload(o.error)]

(***************************************************************************)
(* C16: writing an Outcome of try or retry as JSON and reading it back     *)
(* keeps the discriminant and the key set of the payload, and gives back   *)
(* the payload itself, which holds no function and no opaque value; the    *)
(* failure slot of a Success reads back as absent, not as an empty object. *)
(***************************************************************************)
C16_JsonRoundTrip ==
    \A i \in CallIds :
        LET c == calls[i]
            o == c.outcome
            j == JsonOutcome(o)
        IN ((IsTry(c) \/ IsRetry(c)) /\ IsOutcome(o))
             => /\ j.ok = o.ok
                /\ IsSuccess(o) => "error" \notin DOMAIN j
                /\ IsFailure(o)
                     => /\ "error" \in DOMAIN j
                        /\ DOMAIN j.error = DOMAIN o.error
                        /\ j.error = o.error

(***************************************************************************)
(* C17: a ClientFailure Outcome written as JSON and read back holds only   *)
(* the declared fields of the client error: ok is false, error.client      *)
(* equals the toClient() projection (message, code, userMessage) of the    *)
(* normalized error, and error.error and error.normalized are absent.      *)
(***************************************************************************)
C17_ClientFailureRoundTrip ==
    \A i \in CallIds :
        LET c == calls[i]
            v == IF IsTry(c) THEN TryCaughtValue(c) ELSE RetryCaughtValue(c)
            o == HandlerOptions(c)
            n == NormalizeError(deps, v, NormalizerContext(o))
            j == JsonOutcome(c.outcome)
        IN (NoDepRaises /\ (TryCaught(c) \/ RetryCaught(c))
                /\ "client" \in DOMAIN o /\ o.client)
             => /\ j.ok = FALSE
                /\ DOMAIN j.error = {"client"}
                /\ "error" \notin DOMAIN j.error
                /\ "normalized" \notin DOMAIN j.error
                /\ j.error.client = c.outcome.error.client
                /\ j.error.client
                     = [message |-> n.message, code |-> n.code,
                        userMessage |-> n.userMessage]

\* the client failure of the test: an Error thrown in client mode under the
\* default normalizer, read back with its message
C17_Witness ==
    \E i \in CallIds :
        /\ NoDepRaises
        /\ deps.normalizeError = "default"
        /\ TryCaught(calls[i])
        /\ TryCaughtValue(calls[i]) = ErrBoom
        /\ "client" \in DOMAIN calls[i].opts
        /\ calls[i].opts.client
        /\ JsonOutcome(calls[i].outcome).error.client.message = "boom"

(***************************************************************************)
(* C18: the constructors are pure: ok(data) returns                        *)
(* {ok: true, error: undefined, data} with data unchanged, whatever data   *)
(* is, and error(payload) returns {ok: false, error: payload,              *)
(* data: undefined} with the payload unchanged; neither calls the          *)
(* normalizer, the logger or the reporter, nor checks or alters its        *)
(* argument.                                                               *)
(***************************************************************************)
C18_PureConstructors ==
    \A i \in CallIds :
        LET c == calls[i]
        IN /\ c.api = "ok"
             => /\ Done(c)
                /\ c.shape = "plain"
                /\ c.outcome = [ok |-> TRUE, error |-> Undefined,
                                data |-> c.cur.v]
                /\ c.events = <<>>
                /\ c.fault = None
           /\ c.api = "error"
             => /\ Done(c)
                /\ c.shape = "plain"
                /\ c.outcome = [ok |-> FALSE, error |-> c.cur.v,
                                data |-> Undefined]
                /\ c.events = <<>>
                /\ c.fault = None

\* error is handed a payload with the three keys error, normalized and
\* client, while a logger and a reporter are injected
C18_Witness ==
    \E i \in CallIds :
        /\ calls[i].api = "error"
        /\ DOMAIN calls[i].cur.v = {"error", "normalized", "client"}
        /\ {"logger", "reporter"} \subseteq DOMAIN deps
        /\ IsFailure(calls[i].outcome)

\* ok is handed undefined under injected functions that raise
C18_WitnessOk ==
    \E i \in CallIds :
        /\ calls[i].api = "ok"
        /\ calls[i].cur.v = Undefined
        /\ ~NoDepRaises
        /\ IsSuccess(calls[i].outcome)

(***************************************************************************)
(* C19: retry always returns a deferred handle that resolves to an         *)
(* Outcome, whatever the operation: also when the operation is synchronous *)
(* and returns or throws on its first invocation the caller gets neither a *)
(* plain Outcome nor a synchronous exception.                              *)
(***************************************************************************)
C19_RetryAlwaysDeferred ==
    \A i \in CallIds :
        LET c == calls[i]
        IN IsRetry(c)
             => /\ c.shape = "deferred"
                /\ c.pc = "inflight" => c.outcome = None
                /\ (NoDepRaises /\ Done(c))
                     => (IsOutcome(c.outcome) /\ c.fault = None)

\* the operation threw synchronously on its first invocation: the handle is
\* deferred and has resolved to a failure Outcome
C19_Witness ==
    \E i \in CallIds :
        /\ NoDepRaises
        /\ IsRetry(calls[i])
        /\ calls[i].cur.k = "throw"
        /\ calls[i].invocations = 1
        /\ Done(calls[i])
        /\ calls[i].shape = "deferred"
        /\ IsFailure(calls[i].outcome)

(***************************************************************************)
(* C20: the errors classifier is forwarded to the normalizer: on every     *)
(* failure the normalizer is called once, with the caught value and, if    *)
(* and only if errors was given, a second argument holding that function   *)
(* under the key when; without errors the second argument is absent. The   *)
(* attempt runner never calls the classifier itself: its calls are those   *)
(* to the normalizer, the logger, the reporter and toClient, and under a   *)
(* normalizer that ignores its second argument the Outcome is the same     *)
(* with and without errors.                                                *)
(***************************************************************************)
C20_ErrorsForwardedAsWhen ==
    \A i \in CallIds :
        LET c == calls[i]
            v == IF IsTry(c) THEN TryCaughtValue(c) ELSE RetryCaughtValue(c)
            o == HandlerOptions(c)
            ev == c.events
            normalizeCalls == {j \in 1..Len(ev) : ev[j].fn = "normalizeError"}
        IN (NoDepRaises /\ (TryCaught(c) \/ RetryCaught(c)))
             => /\ normalizeCalls = {1}
                /\ ev[1].error = v
                /\ "errors" \in DOMAIN c.opts
                     => /\ DOMAIN ev[1].ctx = {"when"}
                        /\ ev[1].ctx.when = c.opts.errors
                /\ "errors" \notin DOMAIN c.opts => ev[1].ctx = Undefined
                /\ \A j \in 1..Len(ev) :
                       ev[j].fn \in {"normalizeError", "logger", "reporter",
                                     "toClient"}
                /\ deps.normalizeError = "default"
                     => c.outcome
                          = HandleError(deps, v, Rest(o, {"errors"})).outcome

\* errors given to a try under the normalizer that applies options.when: the
\* code of the normalized error is the classifier's
C20_Witness ==
    \E i \in CallIds :
        /\ NoDepRaises
        /\ deps.normalizeError = "custom"
        /\ TryCaught(calls[i])
        /\ TryCaughtValue(calls[i]) = ErrBoom
        /\ DOMAIN calls[i].opts = {"errors"}
        /\ calls[i].events[1].ctx = [when |-> calls[i].opts.errors]
        /\ calls[i].outcome.error.normalized.code = "VALIDATION_ERROR"

\* the synchronous operation that does at once what the deferred result r
\* settles to
SyncTwin(r) ==
    IF r.v.settle = "resolve" THEN Return(r.v.v) ELSE Throw(r.v.v)

(***************************************************************************)
(* C21: the asynchronous path of try equals the synchronous one: for every *)
(* value and all options, the Outcome obtained by awaiting try of an       *)
(* operation whose deferred result resolves to v is the Outcome of try of  *)
(* a synchronous operation returning v, and with a deferred result that    *)
(* rejects with e the Outcome and the calls to the normalizer, the logger  *)
(* and the reporter are those of try of a synchronous operation throwing   *)
(* e.                                                                      *)
(***************************************************************************)
C21_AsyncAsSync ==
    \A i \in CallIds :
        LET c == calls[i]
            sync == AttemptTry(deps, IdleCall, c.opts, SyncTwin(c.cur))
        IN (NoDepRaises /\ IsTry(c) /\ Done(c) /\ c.cur.k = "return"
                /\ IsAwaitable(c.cur.v))
             => /\ c.outcome = sync.outcome
                /\ c.events = sync.events

\* how many calls of the injected function f a call has made
CallsOf(c, f) == Cardinality({j \in 1..Len(c.events) : c.events[j].fn = f})

\* C22, the calls of a failed call
C22_OncePerFailingCall ==
    \A i \in CallIds :
        LET c == calls[i]
            o == HandlerOptions(c)
            v == IF IsTry(c) THEN TryCaughtValue(c) ELSE RetryCaughtValue(c)
            report == "report" \in DOMAIN o => o.report
            client == "client" \in DOMAIN o /\ o.client
        IN (NoDepRaises /\ (TryCaught(c) \/ RetryCaught(c)))
             => /\ IsFailure(c.outcome)
                /\ CallsOf(c, "normalizeError") = 1
                /\ c.events[1].error = v
                /\ (report /\ "logger" \in DOMAIN deps)
                     => CallsOf(c, "logger") = 1
                /\ (report /\ "reporter" \in DOMAIN deps)
                     => CallsOf(c, "reporter") = 1
                /\ client => CallsOf(c, "toClient") = 1
                /\ ~client => CallsOf(c, "toClient") = 0

\* C22, the attempts of a retry call that is not over
C22_NothingBeforeTheEnd ==
    \A i \in CallIds :
        (IsRetry(calls[i]) /\ ~Done(calls[i])) => calls[i].events = <<>>

(***************************************************************************)
(* C22: the failure pipeline runs exactly once per failing call: a try or  *)
(* retry call that ends in failure calls the normalizer exactly once, the  *)
(* injected logger and reporter exactly once each when report is enabled,  *)
(* and toClient exactly once with client = true and never otherwise. In    *)
(* retry this holds however many attempts failed: the failed attempts      *)
(* before the last are neither normalized nor reported, only the final     *)
(* failure is.                                                             *)
(***************************************************************************)
C22_PipelineOnce ==
    /\ C22_OncePerFailingCall
    /\ C22_NothingBeforeTheEnd

\* a retry in client mode with logger and reporter injected whose three
\* attempts all failed
C22_Witness ==
    \E i \in CallIds :
        /\ NoDepRaises
        /\ RetryCaught(calls[i])
        /\ calls[i].failed = 3
        /\ {"logger", "reporter"} \subseteq DOMAIN deps
        /\ "client" \in DOMAIN calls[i].opts
        /\ calls[i].opts.client
        /\ "report" \notin DOMAIN calls[i].opts
        /\ Len(calls[i].events) = 4

(***************************************************************************)
(* C23: faults of the injected collaborators are not contained: when the   *)
(* normalizer, the logger, the reporter or toClient raises during the      *)
(* failure handling, a synchronous try throws that fault to its caller, an *)
(* asynchronous try and a retry return a handle that rejects with it, no   *)
(* Outcome is produced, and the steps of the pipeline after the faulting   *)
(* one are not executed.                                                   *)
(***************************************************************************)
C23_CollaboratorFaultsPropagate ==
    \A i \in CallIds :
        LET c == calls[i]
            o == HandlerOptions(c)
            report == "report" \in DOMAIN o => o.report
            client == "client" \in DOMAIN o /\ o.client
            f == deps.raises
            reached == \/ f = "normalizeError"
                       \/ f \in {"logger", "reporter"} /\ report
                       \/ f = "toClient" /\ client
            after == CASE f = "normalizeError" -> {"logger", "reporter", "toClient"}
                       [] f = "logger" -> {"reporter", "toClient"}
                       [] f = "reporter" -> {"toClient"}
                       [] OTHER -> {}
        IN (~NoDepRaises /\ (TryCaught(c) \/ RetryCaught(c)))
             => /\ reached
                  => /\ c.fault = ErrDep
                     /\ c.outcome = None
                     /\ c.shape = IF IsTry(c) /\ c.cur.k = "throw"
                                  THEN "thrown" ELSE "deferred"
                     /\ CallsOf(c, f) = 1
                     /\ c.events[Len(c.events)].fn = f
                     /\ \A g \in after : CallsOf(c, g) = 0
                /\ ~reached
                  => /\ c.fault = None
                     /\ IsFailure(c.outcome)
                     /\ CallsOf(c, f) = 0

\* the logger raises in a synchronous try: the call throws, and the reporter
\* was not called
C23_Witness ==
    \E i \in CallIds :
        /\ Raises(deps, "logger")
        /\ TryCaught(calls[i])
        /\ calls[i].cur.k = "throw"
        /\ calls[i].shape = "thrown"
        /\ calls[i].fault = ErrDep
        /\ CallsOf(calls[i], "logger") = 1
        /\ CallsOf(calls[i], "reporter") = 0

\* toClient raises at the end of a retry: the handle rejects
C23_WitnessRetry ==
    \E i \in CallIds :
        /\ Raises(deps, "toClient")
        /\ RetryCaught(calls[i])
        /\ calls[i].shape = "deferred"
        /\ calls[i].fault = ErrDep
        /\ calls[i].outcome = None

\* C24, the state part: a try call has invoked its operation once
C24_OneInvocation ==
    \A i \in CallIds : IsTry(calls[i]) => calls[i].invocations = 1

\* C24, the step part: no step of a try call invokes the operation again
C24_NeverReinvoked ==
    \A i \in CallIds :
        IsTry(calls[i])
            => /\ calls'[i].invocations = calls[i].invocations
               /\ calls'[i].cur = calls[i].cur

(***************************************************************************)
(* C24: try invokes the operation exactly once per call on every path:     *)
(* whether it returns a value, throws, or returns a deferred result that   *)
(* resolves or rejects; the failure handling never invokes it again.       *)
(***************************************************************************)
C24_TryInvokesOnce ==
    /\ []C24_OneInvocation
    /\ [][C24_NeverReinvoked]_vars

\* a try whose deferred result rejected and was handled: one invocation
C24_Witness ==
    \E i \in CallIds :
        /\ NoDepRaises
        /\ TryCaught(calls[i])
        /\ IsPromise(calls[i].cur.v)
        /\ IsFailure(calls[i].outcome)
        /\ calls[i].events # <<>>
        /\ calls[i].invocations = 1

(***************************************************************************)
(* C25: the logger, in either form (an object with an error operation, or  *)
(* a plain function), and the reporter each receive the raw caught value:  *)
(* the value the normalizer received, not the coerced error of the         *)
(* payload. A logger or a reporter that is not injected is skipped, and    *)
(* the failure Outcome is produced all the same.                           *)
(***************************************************************************)
C25_LoggerReporterGetRawValue ==
    \A i \in CallIds :
        LET c == calls[i]
            o == HandlerOptions(c)
            v == IF IsTry(c) THEN TryCaughtValue(c) ELSE RetryCaughtValue(c)
            ev == c.events
        IN (NoDepRaises /\ (TryCaught(c) \/ RetryCaught(c))
                /\ ("report" \in DOMAIN o => o.report))
             => /\ IsFailure(c.outcome)
                /\ \A j \in 1..Len(ev) :
                       ev[j].fn \in {"logger", "reporter"}
                           => /\ ev[j].error = v
                              /\ ev[j].error = ev[1].error
                              /\ ~IsError(v) => ev[j].error # OriginalError(v)
                /\ \A j \in 1..Len(ev) :
                       ev[j].fn = "logger"
                           => ev[j].form = IF deps.logger = "function"
                                           THEN "function" ELSE "object.error"
                /\ CallsOf(c, "logger")
                     = IF "logger" \in DOMAIN deps THEN 1 ELSE 0
                /\ CallsOf(c, "reporter")
                     = IF "reporter" \in DOMAIN deps THEN 1 ELSE 0

\* a thrown string reaches a logger object and the reporter as the string
C25_Witness ==
    \E i \in CallIds :
        /\ NoDepRaises
        /\ TryCaught(calls[i])
        /\ TryCaughtValue(calls[i]) = StrPlain
        /\ "logger" \in DOMAIN deps
        /\ deps.logger = "object"
        /\ "reporter" \in DOMAIN deps
        /\ Len(calls[i].events) >= 3
        /\ calls[i].events[2] = LoggerCall("object.error", StrPlain)
        /\ calls[i].events[3] = ReporterCall(StrPlain)

\* neither a logger nor a reporter is injected: the failure Outcome is there
C25_WitnessSkipped ==
    \E i \in CallIds :
        /\ DOMAIN deps = {"normalizeError"}
        /\ TryCaught(calls[i])
        /\ "report" \notin DOMAIN calls[i].opts
        /\ Len(calls[i].events) = 1
        /\ IsFailure(calls[i].outcome)

\* the call ended with the operation's value: try's operation returned or
\* its Promise resolved, or an attempt of retry succeeded
Succeeded(c) ==
    /\ IsTry(c) \/ IsRetry(c)
    /\ Done(c)
    /\ IF IsTry(c)
       THEN c.cur.k = "return"
              /\ (IsPromise(c.cur.v) => c.cur.v.settle = "resolve")
       ELSE ~c.aborted /\ Await(c.cur).fulfilled

\* the value the operation gave
SucceededValue(c) ==
    IF IsTry(c) THEN (IF IsPromise(c.cur.v) THEN c.cur.v.v ELSE c.cur.v)
    ELSE Await(c.cur).v

(***************************************************************************)
(* C26: a successful call has no pipeline side effects: when try's         *)
(* operation returns or resolves a value, or when retry succeeds, also     *)
(* after failed attempts, the normalizer, the logger, the reporter and     *)
(* toClient are never called, whatever report, client and errors are and   *)
(* whatever is injected, and the Success Outcome depends on the value      *)
(* alone, so it is the same with client = true as with client = false.     *)
(***************************************************************************)
C26_SuccessHasNoSideEffects ==
    \A i \in CallIds :
        LET c == calls[i]
        IN Succeeded(c)
             => /\ c.events = <<>>
                /\ c.fault = None
                /\ c.outcome = [ok |-> TRUE, error |-> Undefined,
                                data |-> SucceededValue(c)]

\* a retry in client mode, with a logger injected, that succeeded after a
\* failed attempt
C26_Witness ==
    \E i \in CallIds :
        /\ Succeeded(calls[i])
        /\ IsRetry(calls[i])
        /\ calls[i].failed >= 1
        /\ "client" \in DOMAIN calls[i].opts
        /\ calls[i].opts.client
        /\ "logger" \in DOMAIN deps
        /\ IsSuccess(calls[i].outcome)

\* an asynchronous try that resolved, with report = true and a reporter
C26_WitnessTry ==
    \E i \in CallIds :
        /\ Succeeded(calls[i])
        /\ IsTry(calls[i])
        /\ IsPromise(calls[i].cur.v)
        /\ "report" \in DOMAIN calls[i].opts
        /\ calls[i].opts.report
        /\ "reporter" \in DOMAIN deps

\* caught values to compare a failure with: other raw values with the same
\* message, from another place or of another kind
TwinValues ==
    ThrownValues \cup {AbortReason, Str("boom"),
                       NewError("Error", "boom", "elsewhere"),
                       NewError("TypeError", "plain string", "elsewhere")}

\* the options of a failure handling in client mode
ClientOptionSets == {o \in TryOptionSets : "client" \in DOMAIN o /\ o.client}

\* the injected normalizers
NormalizerDeps == {[normalizeError |-> n] : n \in {"default", "custom"}}

(***************************************************************************)
(* C27: client-mode non-interference: when a try or retry call in client   *)
(* mode has failed, any other failure whose normalized error has the same  *)
(* toClient() projection gives an equal Outcome in client mode, however    *)
(* its raw caught value, the internal detail of its normalized error       *)
(* (stack, cause), the normalizer or the other options differ: nothing     *)
(* outside the projection shows in a ClientFailure Outcome.                *)
(***************************************************************************)
C27_ClientNonInterference ==
    \A i \in CallIds :
        LET c == calls[i]
            o == HandlerOptions(c)
            v == IF IsTry(c) THEN TryCaughtValue(c) ELSE RetryCaughtValue(c)
            n == NormalizeError(deps, v, NormalizerContext(o))
        IN (NoDepRaises /\ (TryCaught(c) \/ RetryCaught(c))
                /\ "client" \in DOMAIN o /\ o.client)
             => \A v2 \in TwinValues, o2 \in ClientOptionSets,
                   d2 \in NormalizerDeps :
                    LET n2 == NormalizeError(d2, v2, NormalizerContext(o2))
                    IN ToClient(n2) = ToClient(n)
                         => HandleError(d2, v2, o2).outcome = c.outcome

\* a client-mode failure on Error("boom") that has a twin: a string with the
\* same message, whose normalized error differs in stack and cause while
\* the projections are equal
C27_Witness ==
    \E i \in CallIds :
        /\ NoDepRaises
        /\ deps.normalizeError = "custom"
        /\ TryCaught(calls[i])
        /\ TryCaughtValue(calls[i]) = ErrBoom
        /\ DOMAIN calls[i].opts = {"client"}
        /\ calls[i].opts.client
        /\ IsFailure(calls[i].outcome)
        /\ CustomNormalizer(Str("boom"), Undefined)
              # CustomNormalizer(ErrBoom, Undefined)
        /\ ToClient(CustomNormalizer(Str("boom"), Undefined))
              = calls[i].outcome.error.client

(***************************************************************************)
(* Two calls on one attempt instance, in flight together                   *)
(***************************************************************************)
PairIds == {1, 2}

PairDeps ==
    {[normalizeError |-> "custom", logger |-> "function",
      reporter |-> "function"],
     [normalizeError |-> "default", logger |-> "object"]}

PairTryOptions ==
    {Empty, [client |-> TRUE], [report |-> FALSE, errors |-> "classify"]}

\* asynchronous operations
PairTryResults ==
    {Return(PromiseOf("resolve", Num42)), Return(PromiseOf("resolve", Null)),
     Return(PromiseOf("reject", ErrBoom)), Return(PromiseOf("reject", StrPlain))}

PairRetryOptions ==
    {[tries |-> 1], [tries |-> 1, client |-> TRUE],
     [tries |-> 0, retry |-> [signal |-> "signal"]]}

PairRetryResults ==
    {Return(PromiseOf("resolve", Null)), Return(PromiseOf("reject", ErrBoom)),
     Throw(ErrType)}

InitPair ==
    /\ deps \in PairDeps
    /\ calls = [i \in PairIds |-> IdleCall]

PairCallTry(i) ==
    /\ calls[i].pc = "idle"
    /\ \E options \in PairTryOptions, r \in PairTryResults :
          calls' = [calls EXCEPT ![i] = AttemptTry(deps, @, options, r)]
    /\ UNCHANGED deps

PairCallRetry(i) ==
    /\ calls[i].pc = "idle"
    /\ \E options \in PairRetryOptions, r \in PairRetryResults :
          calls' = [calls EXCEPT ![i] = AttemptRetry(@, options, r)]
    /\ UNCHANGED deps

PairRetryNext(i) ==
    /\ calls[i].api = "retry"
    /\ calls[i].pc = "backoff"
    /\ \E r \in PairRetryResults :
          calls' = [calls EXCEPT ![i] = AttemptRetryNext(@, r)]
    /\ UNCHANGED deps

NextPair ==
    \E i \in PairIds :
        \/ PairCallTry(i)
        \/ TrySettle(i)
        \/ PairCallRetry(i)
        \/ RetrySettle(i)
        \/ PairRetryNext(i)
        \/ RetryAbort(i)

SpecPair == InitPair /\ [][NextPair]_vars

\* what a finished call must hold when only its own operation and options
\* count
OwnResult(c) ==
    IF Succeeded(c)
    THEN [outcome |-> AttemptOk(SucceededValue(c)), events |-> <<>>,
          fault |-> None]
    ELSE LET h == HandleError(deps,
                              IF IsTry(c) THEN TryCaughtValue(c)
                              ELSE RetryCaughtValue(c),
                              [k \in DOMAIN c.opts
                                     \cap {"report", "client", "errors"}
                                  |-> c.opts[k]])
         IN [outcome |-> h.outcome, events |-> h.events, fault |-> h.fault]

\* C28, the state part: a finished call holds the result of its own
\* operation under its own options, with its failure normalized and
\* reported once
C28_OwnOutcome ==
    \A i \in PairIds :
        LET c == calls[i]
        IN Done(c)
             => /\ c.outcome = OwnResult(c).outcome
                /\ c.events = OwnResult(c).events
                /\ c.fault = None
                /\ CallsOf(c, "normalizeError")
                     = IF IsFailure(c.outcome) THEN 1 ELSE 0
                /\ CallsOf(c, "logger") <= 1
                /\ CallsOf(c, "reporter") <= 1

\* C28, the step part: a step belongs to one call and leaves the other call
\* and the injected functions as they are
C28_StepsOfOneCall ==
    /\ deps' = deps
    /\ \A i \in PairIds, j \in PairIds :
           (i # j /\ calls'[i] # calls[i]) => calls'[j] = calls[j]

(***************************************************************************)
(* C28: calls are independent under interleaving: when asynchronous try    *)
(* and retry calls on one attempt instance are in flight at once and       *)
(* settle in any order, the Outcome of each call is determined by its own  *)
(* operation and options only (no call gets the value or the error of      *)
(* another), each failure is normalized and reported once for its own      *)
(* call, and no call changes the injected normalizer, logger or reporter.  *)
(***************************************************************************)
C28_IndependentCalls ==
    /\ []C28_OwnOutcome
    /\ [][C28_StepsOfOneCall]_vars

\* two try calls started with different operations: the second one has
\* settled with its own error while the first, which will resolve, is still
\* pending
C28_Witness ==
    /\ IsTry(calls[1])
    /\ calls[1].pc = "pending"
    /\ calls[1].cur = Return(PromiseOf("resolve", Num42))
    /\ IsTry(calls[2])
    /\ Done(calls[2])
    /\ calls[2].cur = Return(PromiseOf("reject", ErrBoom))
    /\ IsFailure(calls[2].outcome)
    /\ calls[2].events[1].error = ErrBoom

\* a retry between two attempts while a try call is pending
C28_WitnessInFlight ==
    /\ IsRetry(calls[1])
    /\ calls[1].pc = "backoff"
    /\ IsTry(calls[2])
    /\ calls[2].pc = "pending"

(***************************************************************************)
(* The calls under fair scheduling: a pending promise of the operation     *)
(* settles, an attempt in flight settles, a backoff delay elapses          *)
(***************************************************************************)
Fairness ==
    \A i \in CallIds :
        /\ WF_vars(TrySettle(i))
        /\ WF_vars(RetrySettle(i))
        /\ WF_vars(RetryNext(i))

SpecLive == Init /\ [][Next]_vars /\ Fairness

\* the caller holds a handle that has not settled
Pending(c) == c.pc \in {"pending", "inflight", "backoff"}

\* C29, the progress part: a handle that is pending settles, with an Outcome
\* when no injected function raises
C29_HandleResolves ==
    \A i \in CallIds :
        Pending(calls[i])
            ~> (Done(calls[i])
                  /\ (NoDepRaises => IsOutcome(calls[i].outcome)))

\* C29, the bound: a retry call makes at most tries + 1 attempts
C29_WithinTriesPlusOne ==
    \A i \in CallIds :
        IsRetry(calls[i]) => calls[i].invocations <= Tries(calls[i]) + 1

(***************************************************************************)
(* C29: every call eventually yields an Outcome: provided each invocation  *)
(* of the operation eventually settles and each backoff delay eventually   *)
(* elapses, the handle of an asynchronous try resolves and the handle of a *)
(* retry with a finite tries resolves after at most tries + 1 attempts; no *)
(* call stays pending for ever.                                            *)
(***************************************************************************)
C29_EventualOutcome ==
    /\ C29_HandleResolves
    /\ []C29_WithinTriesPlusOne

====
